---- MODULE Spec2Model ----
(***************************************************************************)
(* Model of src/reflect.py: the monitor that scans jobs/{job}/{task} for   *)
(* failed tasks, archives their artifacts under failed-jobs/, and drives   *)
(* the reflection -> signature iteration -> push pipeline per job.         *)
(*                                                                         *)
(* Specifications:                                                         *)
(*   Spec          the loop beside a runner that adds failed tasks to two  *)
(*                 jobs;                                                   *)
(*   SpecChurn     the loop beside a runner that adds and deletes tasks of *)
(*                 one job (a deletion between scan and copy makes         *)
(*                 shutil.copy raise); SpecChurnLive adds weak fairness of *)
(*                 the loop's steps;                                       *)
(*   SpecE2E       the loop over a fixed tree of ten failed tasks of run1; *)
(*   SpecScan      find_failed_tasks() on every small tree;                *)
(*   SpecArchive   copy_failed_artifacts() called twice on one scan;       *)
(*   SpecFaults    SpecChurn with errors of print_status() and of the head *)
(*                 of the for loop; SpecFaultsLive adds weak fairness;     *)
(*   SpecPartial   the loop over a few tasks whose trajectory may still be *)
(*                 written, with copies that stop part-way;                *)
(*   SpecRestart   SpecE2E with the process stopped and started again;     *)
(*   SpecProcessed SpecE2E started with any processed-job state file;      *)
(*   SpecStop      SpecE2E with a stop request (SIGINT) at any point;      *)
(*   SpecLog       SpecE2E with two more entries of any kind in the tree;  *)
(*   SpecJump      the loop over a tree of twenty or more failed tasks;    *)
(*   SpecPair      the loop in continuous mode beside a runner that adds   *)
(*                 tasks to two jobs of nine and deletes tasks of run1;    *)
(*                 SpecPairLive adds weak fairness of the loop's steps.    *)
(* The stop request takes part in SpecStop only.                           *)
(***************************************************************************)
EXTENDS Integers, Sequences, FiniteSets, TLC

\* ------------------------------------------------------------------ bounds
\* Task directories the benchmark runner may create in total (monitor loop).
MaxTasks == 20
\* Task directories the runner may delete again (monitor loop).
MaxRemovals == 1
\* Task slots that hold arbitrary content (scanner and archiver specifications);
\* tasks the runner adds to the two jobs of SpecPair.
MaxSlots == 2

\* ------------------------------------------------------- program constants
\* "count >= 10", "count // 10": the literal of the crossing rule.
Threshold == 10

Jobs == {"run1", "run2"}
Tasks == 1..MaxTasks

\* ------------------------------------------------------------- file model
\* The digits that occur in the reward markers of the model.
Digits == {"0", "1"}

\* One entry of jobs/{job_id}/: nothing, a plain file, or a task directory
\* with verifier/reward.txt (has_reward, reward_text),
\* agent/command-0/stdout.txt (traj) and verifier/test-stdout.txt (test);
\* growing: the runner is still writing stdout.txt, the file holds a part of
\* the trajectory.
NoEntry == [dir |-> "none", has_reward |-> FALSE, reward_text |-> <<>>,
            traj |-> FALSE, test |-> FALSE, growing |-> FALSE]
FileEntry == [dir |-> "file", has_reward |-> FALSE, reward_text |-> <<>>,
              traj |-> FALSE, test |-> FALSE, growing |-> FALSE]
TaskDir(has, text, traj, test) ==
    [dir |-> "dir", has_reward |-> has, reward_text |-> text,
     traj |-> traj, test |-> test, growing |-> FALSE]

\* A failed task as the runner leaves it: reward 0, trajectory and test output.
FailedDir == TaskDir(TRUE, <<"0", "\n">>, TRUE, TRUE)

\* One entry of failed-jobs/{job_id}/{task_id}/: trajectory.txt (traj) and
\* test-case-result.txt (test) exist; cut: trajectory.txt holds only a part of
\* the trajectory.
NoArchive == [traj |-> FALSE, test |-> FALSE, cut |-> FALSE]

\* ------------------------------------------------- int(text.strip()), l.84
IsSpace(c) == c \in {" ", "\n"}

RECURSIVE lstrip(_)
lstrip(s) ==
    IF s = <<>> THEN s
    ELSE IF IsSpace(Head(s)) THEN lstrip(Tail(s)) ELSE s

RECURSIVE rstrip(_)
rstrip(s) ==
    IF s = <<>> THEN s
    ELSE IF IsSpace(s[Len(s)]) THEN rstrip(SubSeq(s, 1, Len(s) - 1)) ELSE s

strip(s) == rstrip(lstrip(s))

DigitVal(c) == IF c = "1" THEN 1 ELSE 0

RECURSIVE DecVal(_)
DecVal(s) ==
    IF s = <<>> THEN 0
    ELSE 10 * DecVal(SubSeq(s, 1, Len(s) - 1)) + DigitVal(s[Len(s)])

\* Python's int() on a stripped string: an optional sign, then digits only;
\* anything else is a ValueError (ok = FALSE).
ParseInt(s) ==
    LET signed == s # <<>> /\ Head(s) \in {"-", "+"}
        body == IF signed THEN Tail(s) ELSE s
        ok == body # <<>> /\ \A i \in 1..Len(body) : body[i] \in Digits
    IN [ok |-> ok,
        val |-> IF ~ok THEN 0
                ELSE IF signed /\ Head(s) = "-" THEN 0 - DecVal(body)
                ELSE DecVal(body)]

\* ------------------------------------------------------------------ state
VARIABLES
    jobs_dir,             \* jobs/: [job -> [task -> entry]]
    failed_dir,           \* failed-jobs/: [job -> [task -> archive entry]]
    feedback_file,        \* failed-jobs/{job}/FEEDBACK.md: "absent", "empty", "text", "garbled"
    last_analyzed_count,  \* monitor_loop's dict, a missing key shown as 0
    one_shot,             \* monitor_loop's argument
    pc,                   \* position of the process
    failed_tasks,         \* result of the last find_failed_tasks()
    jobs_with_new_failures,  \* value returned by the last copy_failed_artifacts()
    tasks_by_job,         \* monitor_loop's dict: <<keys in insertion order, counts>>
    idx,                  \* position of the for loop over tasks_by_job
    calls,                \* stage invocations of the iteration in progress
    copies,               \* number of shutil.copy calls per artifact
    removals,             \* task directories deleted by the runner so far
    subprocess_result,    \* how the subprocess.run() of the stage just called ended
    processed_jobs,       \* monitor_loop's set, loaded at line 307
    processed_file,       \* .processed_failed_jobs.json
    stop_request,         \* SIGINT: "none", "pending" (the task is cancelled at
                          \* its next await) or "raised" (KeyboardInterrupt)
    log                   \* the lines printed in the iteration in progress

vars == <<jobs_dir, failed_dir, feedback_file, last_analyzed_count, one_shot, pc,
          failed_tasks, jobs_with_new_failures, tasks_by_job, idx, calls, copies,
          removals, subprocess_result, processed_jobs, processed_file,
          stop_request, log>>

\* --------------------------------------------------- find_failed_tasks()
\* FailedTask(job_id, task_id, ..., test_result_path, reward); the paths are
\* functions of the two ids, test_result_path is None when has_test = FALSE.
FailedTask(j, t, e) ==
    [job_id |-> j, task_id |-> t, has_test |-> e.test, reward |-> 0]

\* Mutant: the trajectory_file.exists() test of line 89 is dropped.
IsFailed_NoTrajectoryCheck(tree, j, t) ==
    LET e == tree[j][t]
        r == ParseInt(strip(e.reward_text))
    IN /\ e.dir = "dir"
       /\ e.has_reward
       /\ r.ok
       /\ r.val = 0

\* Lines 76-89: whether the task directory t of job j is appended to the result.
IsFailed(tree, j, t) ==
    LET e == tree[j][t]
        r == ParseInt(strip(e.reward_text))
    IN /\ e.dir = "dir"
       /\ e.has_reward
       /\ r.ok
       /\ r.val = 0 /\ e.traj

\* Lines 71-101: the records one job directory contributes, in the order
\* taskOrder in which iterdir() yields its entries.
ScanJob(tree, j, taskOrder) ==
    LET Failed(t) == IsFailed(tree, j, t)
        found == SelectSeq(taskOrder, Failed)
    IN [i \in 1..Len(found) |-> FailedTask(j, found[i], tree[j][found[i]])]

\* jobOrder is the order in which iterdir() yields the job directories.
RECURSIVE find_failed_tasks(_, _, _)
find_failed_tasks(tree, jobOrder, taskOrder) ==
    IF jobOrder = <<>> THEN <<>>
    ELSE ScanJob(tree, Head(jobOrder), taskOrder)
         \o find_failed_tasks(tree, Tail(jobOrder), taskOrder)

\* Orders of a finite set.
RECURSIVE Orders(_)
Orders(S) ==
    IF S = {} THEN { <<>> }
    ELSE UNION { { <<x>> \o o : o \in Orders(S \ {x}) } : x \in S }

Ascending(n) == [i \in 1..n |-> i]

\* ------------------------------------------------ copy_failed_artifacts()
EmptyTree == [j \in Jobs |-> [t \in Tasks |-> NoEntry]]
EmptyArchive == [j \in Jobs |-> [t \in Tasks |-> NoArchive]]
NoNew == [j \in Jobs |-> <<>>]
NoCopies == [j \in Jobs |-> [t \in Tasks |-> [traj |-> 0, test |-> 0]]]

\* Whether shutil.copy can read the source artifact of a record.
SourceTraj(tree, task) ==
    tree[task.job_id][task.task_id].dir = "dir" /\ tree[task.job_id][task.task_id].traj
SourceTest(tree, task) ==
    tree[task.job_id][task.task_id].dir = "dir" /\ tree[task.job_id][task.task_id].test

\* Mutant: the exists() check of line 119 is dropped.
CopyTrajectory_NoExistsCheck(tree, task, st) ==
    LET j == task.job_id
        t == task.task_id
    IN IF ~SourceTraj(tree, task) THEN [st EXCEPT !.raised = TRUE]
       ELSE [st EXCEPT !.archive[j][t].traj = TRUE,
                       !.archive[j][t].cut = tree[j][t].growing,
                       !.copies[j][t].traj = @ + 1,
                       !.new[j] = Append(@, t)]

\* Lines 118-124 for one record: st is [archive, new, copies, raised].  The
\* copy holds what stdout.txt held when it was read.
CopyTrajectory(tree, task, st) ==
    LET j == task.job_id
        t == task.task_id
    IN IF st.archive[j][t].traj THEN st
       ELSE IF ~SourceTraj(tree, task) THEN [st EXCEPT !.raised = TRUE]
       ELSE [st EXCEPT !.archive[j][t].traj = TRUE,
                       !.archive[j][t].cut = tree[j][t].growing,
                       !.copies[j][t].traj = @ + 1,
                       !.new[j] = Append(@, t)]

\* Lines 127-130 for one record.
CopyTestResult(tree, task, st) ==
    LET j == task.job_id
        t == task.task_id
    IN IF ~task.has_test THEN st
       ELSE IF st.archive[j][t].test THEN st
       ELSE IF ~SourceTest(tree, task) THEN [st EXCEPT !.raised = TRUE]
       ELSE [st EXCEPT !.archive[j][t].test = TRUE,
                       !.copies[j][t].test = @ + 1]

\* Lines 114-130: the body of the for loop for one record.
CopyRecord(tree, task, st) ==
    LET a == CopyTrajectory(tree, task, st)
    IN IF a.raised THEN a ELSE CopyTestResult(tree, task, a)

\* Lines 113-130: the for loop over the records left; an exception of
\* shutil.copy ends the call.  (The singleton sets give each value a name.)
RECURSIVE CopyLoop(_, _, _)
CopyLoop(tree, tasks, st) ==
    IF tasks = <<>> \/ st.raised THEN st
    ELSE CHOOSE out \in
            { CopyLoop(tree, rest, next) :
                rest \in {Tail(tasks)}, next \in {CopyRecord(tree, Head(tasks), st)} } : TRUE

copy_failed_artifacts(tree, tasks, archive, cnt) ==
    CopyLoop(tree, tasks,
             [archive |-> archive, new |-> NoNew, copies |-> cnt, raised |-> FALSE])

\* ------------------------------------------------------- monitor_loop()
\* Lines 330-332: the keys of tasks_by_job in insertion order, and the counts.
RECURSIVE KeysOf(_, _)
KeysOf(tasks, seen) ==
    IF tasks = <<>> THEN <<>>
    ELSE IF Head(tasks).job_id \in seen THEN KeysOf(Tail(tasks), seen)
    ELSE << Head(tasks).job_id >> \o KeysOf(Tail(tasks), seen \cup {Head(tasks).job_id})

CountOf(tasks, j) == Cardinality({i \in 1..Len(tasks) : tasks[i].job_id = j})

GroupByJob(tasks) ==
    [keys |-> KeysOf(tasks, {}), count |-> [j \in Jobs |-> CountOf(tasks, j)]]

NoGroups == [keys |-> <<>>, count |-> [j \in Jobs |-> 0]]

\* Mutants of the crossing rule: ">=" for ">", "!=" for ">", and a strict
\* "count > 10".
ShouldTrigger_Ge(count, last_count) ==
    count >= Threshold /\ (count \div Threshold) >= (last_count \div Threshold)
ShouldTrigger_Ne(count, last_count) ==
    count >= Threshold /\ (count \div Threshold) # (last_count \div Threshold)
ShouldTrigger_Strict(count, last_count) ==
    count > Threshold /\ (count \div Threshold) > (last_count \div Threshold)

\* Line 338: the crossing rule.
ShouldTrigger(count, last_count) ==
    count >= Threshold /\ (count \div Threshold) > (last_count \div Threshold)

\* .processed_failed_jobs.json: whether it exists and the job ids it lists.
ProcessedFile(jobs) == [exists |-> TRUE, jobs |-> jobs]
NoProcessedFile == [exists |-> FALSE, jobs |-> {}]

\* Lines 43-49: the set the state file lists, the empty set without a file.
load_processed_jobs(file) == IF file.exists THEN file.jobs ELSE {}

\* --- the lines the loop prints, by what they report and the ids they carry
\* (job_id "" and task_id 0: the line carries none)
LogLine(kind, j, t) == [kind |-> kind, job_id |-> j, task_id |-> t]

\* Lines 80-89 print nothing for an entry they skip; line 369 reports a scan
\* without failed tasks.
ScanLog(tasks) ==
    IF tasks = <<>> THEN {LogLine("no_failed_tasks", "", 0)} ELSE {}

\* Lines 299-301: print_status() prints one line per job of the scan.
StatusLog(tasks) ==
    { LogLine("status", tasks[i].job_id, 0) : i \in 1..Len(tasks) }

\* Lines 338-341, 366-367: what the head of the for loop prints for a job.
CheckLog(j, count, last_count) ==
    IF ShouldTrigger(count, last_count) THEN {LogLine("running", j, 0)}
    ELSE IF count < Threshold THEN {LogLine("waiting", j, 0)} ELSE {}

\* Mutant: the reflection stage reports nothing.
ReflectLog_Silent(j, result) == {}

\* Lines 347, 362, 365.
ReflectLog(j, result) ==
    {LogLine(IF result = "ok" THEN "feedback_generated"
             ELSE IF result = "raised" THEN "error_processing"
             ELSE "no_feedback", j, 0)}

\* Lines 353, 360.
MutateLog(j, ok) ==
    {LogLine(IF ok THEN "signature_updated" ELSE "signature_failed", j, 0)}

\* Lines 356, 358.
PublishLog(j, ok) ==
    {LogLine(IF ok THEN "pushed" ELSE "push_failed", j, 0)}

CurJob == tasks_by_job.keys[idx]
CurCount == tasks_by_job.count[CurJob]
InLoop == pc = "check" /\ idx <= Len(tasks_by_job.keys)

Init ==
    /\ jobs_dir = EmptyTree
    /\ failed_dir = EmptyArchive
    /\ feedback_file = [j \in Jobs |-> "absent"]
    /\ last_analyzed_count = [j \in Jobs |-> 0]
    /\ one_shot \in BOOLEAN
    /\ pc = "scan"
    /\ failed_tasks = <<>>
    /\ jobs_with_new_failures = NoNew
    /\ tasks_by_job = NoGroups
    /\ idx = 1
    /\ calls = <<>>
    /\ copies = NoCopies
    /\ removals = 0
    /\ subprocess_result = "none"
    /\ processed_file = NoProcessedFile
    /\ processed_jobs = load_processed_jobs(processed_file)
    /\ stop_request = "none"
    /\ log = {}

\* --- the benchmark runner (external writer of jobs/)
DirCount(tree) ==
    Cardinality({x \in Jobs \X Tasks : tree[x[1]][x[2]].dir # "none"})
Present(tree, j) == {t \in Tasks : tree[j][t].dir # "none"}
FirstFree(tree, j) == CHOOSE t \in Tasks \ Present(tree, j) :
                          \A u \in Tasks \ Present(tree, j) : t <= u
LastPresent(tree, j) == CHOOSE t \in Present(tree, j) :
                          \A u \in Present(tree, j) : u <= t

\* The runner finishes one more task of job j with reward 0.  What the runner
\* does between two scans is seen by the loop only at the next scan, so its
\* steps are taken at the top of the loop.
RunnerFail(j) ==
    /\ pc = "scan"
    /\ DirCount(jobs_dir) < MaxTasks
    /\ jobs_dir' = [jobs_dir EXCEPT ![j][FirstFree(jobs_dir, j)] = FailedDir]
    /\ UNCHANGED <<failed_dir, feedback_file, last_analyzed_count, one_shot, pc,
                   failed_tasks, jobs_with_new_failures, tasks_by_job, idx, calls,
                   copies, removals,
                   subprocess_result, processed_jobs,
                   processed_file, stop_request, log>>

\* The runner deletes the newest task directory of job j; between the scan
\* and the copy this takes the source of a scanned record away.
RunnerRemove(j) ==
    /\ pc \in {"scan", "archive"}
    /\ removals < MaxRemovals
    /\ Present(jobs_dir, j) # {}
    /\ jobs_dir' = [jobs_dir EXCEPT ![j][LastPresent(jobs_dir, j)] = NoEntry]
    /\ removals' = removals + 1
    /\ UNCHANGED <<failed_dir, feedback_file, last_analyzed_count, one_shot, pc,
                   failed_tasks, jobs_with_new_failures, tasks_by_job, idx, calls,
                   copies,
                   subprocess_result, processed_jobs,
                   processed_file, stop_request, log>>

\* --- the loop
\* Line 320, 322, 368-369: find_failed_tasks() returns.
Scan ==
    /\ pc = "scan"
    /\ \E jobOrder \in Orders(Jobs) :
          failed_tasks' = find_failed_tasks(jobs_dir, jobOrder, Ascending(MaxTasks))
    /\ pc' = IF failed_tasks' # <<>> THEN "archive" ELSE "end"
    /\ log' = log \cup ScanLog(failed_tasks')
    /\ UNCHANGED <<jobs_dir, failed_dir, feedback_file, last_analyzed_count, one_shot,
                   jobs_with_new_failures, tasks_by_job, idx, calls, copies, removals,
                   subprocess_result, processed_jobs,
                   processed_file, stop_request>>

\* Line 320: iterdir() raises (jobs/ cannot be listed); caught at line 379.
ScanError ==
    /\ pc = "scan"
    /\ pc' = "except"
    /\ UNCHANGED <<jobs_dir, failed_dir, feedback_file, last_analyzed_count, one_shot,
                   failed_tasks, jobs_with_new_failures, tasks_by_job, idx, calls,
                   copies, removals,
                   subprocess_result, processed_jobs,
                   processed_file, stop_request, log>>

\* Mutant: an exception of the archiver is swallowed and the loop goes on.
Archive_Swallow ==
    /\ pc = "archive"
    /\ LET r == copy_failed_artifacts(jobs_dir, failed_tasks, failed_dir, copies)
       IN /\ failed_dir' = r.archive
          /\ copies' = r.copies
          /\ jobs_with_new_failures' = IF r.raised THEN NoNew ELSE r.new
          /\ pc' = "group"
    /\ UNCHANGED <<jobs_dir, feedback_file, last_analyzed_count, one_shot,
                   failed_tasks, tasks_by_job, idx, calls, removals,
                   subprocess_result, processed_jobs,
                   processed_file, stop_request, log>>

\* Line 324: copy_failed_artifacts(failed_tasks) returns or raises.
Archive ==
    /\ pc = "archive"
    /\ LET r == copy_failed_artifacts(jobs_dir, failed_tasks, failed_dir, copies)
       IN /\ failed_dir' = r.archive
          /\ copies' = r.copies
          /\ jobs_with_new_failures' = IF r.raised THEN NoNew ELSE r.new
          /\ pc' = IF r.raised THEN "except" ELSE "group"
    /\ UNCHANGED <<jobs_dir, feedback_file, last_analyzed_count, one_shot,
                   failed_tasks, tasks_by_job, idx, calls, removals,
                   subprocess_result, processed_jobs,
                   processed_file, stop_request, log>>

\* Lines 324-332: the returned mapping is dropped, print_status(), grouping.
Group ==
    /\ pc = "group"
    /\ jobs_with_new_failures' = NoNew
    /\ tasks_by_job' = GroupByJob(failed_tasks)
    /\ idx' = 1
    /\ pc' = "check"
    /\ log' = log \cup StatusLog(failed_tasks)
    /\ UNCHANGED <<jobs_dir, failed_dir, feedback_file, last_analyzed_count, one_shot,
                   failed_tasks, calls, copies, removals,
                   subprocess_result, processed_jobs,
                   processed_file, stop_request>>

\* Mutant: a job of the processed-job set is never analysed again.
Check_SkipProcessed ==
    /\ InLoop
    /\ IF CurJob \notin processed_jobs
          /\ ShouldTrigger(CurCount, last_analyzed_count[CurJob])
       THEN pc' = "reflect" /\ idx' = idx
       ELSE pc' = "check" /\ idx' = idx + 1
    /\ subprocess_result' = "none"
    /\ log' = IF pc' = "reflect"
              THEN log \cup {LogLine("running", CurJob, 0)}
              ELSE log \cup (CheckLog(CurJob, CurCount, last_analyzed_count[CurJob])
                                \ {LogLine("running", CurJob, 0)})
    /\ UNCHANGED <<jobs_dir, failed_dir, feedback_file, last_analyzed_count, one_shot,
                   failed_tasks, jobs_with_new_failures, tasks_by_job, calls, copies,
                   removals, processed_jobs, processed_file, stop_request>>

\* Lines 335-338, 366-367: the head of the for loop for the next job.
Check ==
    /\ InLoop
    /\ IF ShouldTrigger(CurCount, last_analyzed_count[CurJob])
       THEN pc' = "reflect" /\ idx' = idx
       ELSE pc' = "check" /\ idx' = idx + 1
    /\ subprocess_result' = "none"
    /\ log' = log \cup CheckLog(CurJob, CurCount, last_analyzed_count[CurJob])
    /\ UNCHANGED <<jobs_dir, failed_dir, feedback_file, last_analyzed_count, one_shot,
                   failed_tasks, jobs_with_new_failures, tasks_by_job, calls, copies,
                   removals, processed_jobs, processed_file, stop_request>>

\* The for loop is exhausted: line 371.
LoopExit ==
    /\ pc = "check"
    /\ idx > Len(tasks_by_job.keys)
    /\ pc' = "end"
    /\ subprocess_result' = "none"
    /\ UNCHANGED <<jobs_dir, failed_dir, feedback_file, last_analyzed_count, one_shot,
                   failed_tasks, jobs_with_new_failures, tasks_by_job, idx, calls,
                   copies, removals, processed_jobs, processed_file, stop_request, log>>

\* --- the external processes
\* How subprocess.run() ends: exit code 0, another exit code, TimeoutExpired,
\* or an error starting the process.
ProcResults == {"exit0", "exit1", "timeout", "error"}
\* What FEEDBACK.md may be: absent, an empty file, a report, or bytes that
\* read_text() cannot decode.
FileStates == {"absent", "empty", "text", "garbled"}

Call(stage, j, result) == [stage |-> stage, job_id |-> j, result |-> result]

\* Lines 179-182: the value run_reflection_analysis() returns for the state
\* of FEEDBACK.md after the subprocess; read_text() raises on a garbled file.
run_reflection_analysis(file) ==
    [raised |-> file = "garbled",
     feedback |-> IF file = "text" THEN "text" ELSE ""]

\* Mutant: the exit code is not looked at (as in run_reflection_analysis).
run_signature_iteration_AnyExit(signature_exists, proc) ==
    signature_exists /\ proc \in {"exit0", "exit1"}

\* Lines 192-194, 242-249.
run_signature_iteration(signature_exists, proc) ==
    signature_exists /\ proc = "exit0"

\* Lines 271-283.
push_nanocode_to_hub(proc) == proc = "exit0"

\* Mutant: a reflection without feedback ends the for loop.
AfterReflection_EndLoop(r) ==
    IF r.raised THEN "end"
    ELSE IF r.feedback # "" THEN "mutate" ELSE "end"

\* Mutant: the signature iteration runs whatever the reflection returned.
AfterReflection_Always(r) == "mutate"

\* Lines 346-365: where the pipeline goes after run_reflection_analysis().
AfterReflection(r) ==
    IF r.raised THEN "check"
    ELSE IF r.feedback # "" THEN "mutate" ELSE "check"

\* Mutant: the push runs whatever the signature iteration returned.
AfterMutation_Always(ok) == "publish"

\* Lines 352-360: where the pipeline goes after run_signature_iteration().
AfterMutation(ok) == IF ok THEN "publish" ELSE "check"

\* Mutant: one watermark for all jobs.
RecordCount_AllJobs(last, j, count, r) ==
    IF ~r.raised /\ r.feedback # "" THEN [k \in Jobs |-> count] ELSE last

\* Mutant: the watermark moves to the next multiple of ten above it.
RecordCount_NextMultiple(last, j, count, r) ==
    IF ~r.raised /\ r.feedback # ""
    THEN [last EXCEPT ![j] = ((last[j] \div Threshold) + 1) * Threshold]
    ELSE last

\* Mutant: the count is recorded before the feedback is looked at.
RecordCount_Always(last, j, count, r) == [last EXCEPT ![j] = count]

\* Line 348: the watermark after run_reflection_analysis() returned r.
RecordCount(last, j, count, r) ==
    IF ~r.raised /\ r.feedback # "" THEN [last EXCEPT ![j] = count] ELSE last

\* Lines 343-348, 361-365: run_reflection_analysis(job_id) and the branch on it.
Reflect ==
    /\ pc = "reflect"
    /\ \E proc \in ProcResults, after \in FileStates :
          /\ proc = "error" => after = feedback_file[CurJob]
          /\ subprocess_result' = proc
          /\ feedback_file' = [feedback_file EXCEPT ![CurJob] = after]
          /\ LET r == run_reflection_analysis(after)
                 next == AfterReflection(r)
             IN /\ last_analyzed_count' =
                       RecordCount(last_analyzed_count, CurJob, CurCount, r)
                /\ calls' = Append(calls, Call("reflect", CurJob,
                                IF r.raised THEN "raised"
                                ELSE IF r.feedback # "" THEN "ok" ELSE "fail"))
                /\ pc' = next
                /\ idx' = IF next = "check" THEN idx + 1 ELSE idx
    /\ log' = log \cup ReflectLog(CurJob, calls'[Len(calls')].result)
    /\ UNCHANGED <<jobs_dir, failed_dir, one_shot, failed_tasks,
                   jobs_with_new_failures, tasks_by_job, copies, removals,
                   processed_jobs, processed_file, stop_request>>

\* Lines 351-352, 359-360: run_signature_iteration(feedback_path).
Mutate ==
    /\ pc = "mutate"
    /\ \E signature_exists \in BOOLEAN, proc \in ProcResults :
          LET ok == run_signature_iteration(signature_exists, proc)
              next == AfterMutation(ok)
          IN /\ subprocess_result' = IF signature_exists THEN proc ELSE "notrun"
             /\ calls' = Append(calls, Call("mutate", CurJob,
                                            IF ok THEN "ok" ELSE "fail"))
             /\ pc' = next
             /\ idx' = IF next = "check" THEN idx + 1 ELSE idx
    /\ log' = log \cup MutateLog(CurJob, calls'[Len(calls')].result = "ok")
    /\ UNCHANGED <<jobs_dir, failed_dir, feedback_file, last_analyzed_count, one_shot,
                   failed_tasks, jobs_with_new_failures, tasks_by_job, copies,
                   removals, processed_jobs, processed_file, stop_request>>

\* Lines 355-358: push_nanocode_to_hub().
Publish ==
    /\ pc = "publish"
    /\ \E proc \in ProcResults :
          /\ subprocess_result' = proc
          /\ calls' = Append(calls, Call("publish", CurJob,
                             IF push_nanocode_to_hub(proc) THEN "ok" ELSE "fail"))
    /\ pc' = "check"
    /\ idx' = idx + 1
    /\ log' = log \cup PublishLog(CurJob, calls'[Len(calls')].result = "ok")
    /\ UNCHANGED <<jobs_dir, failed_dir, feedback_file, last_analyzed_count, one_shot,
                   failed_tasks, jobs_with_new_failures, tasks_by_job, copies,
                   removals, processed_jobs, processed_file, stop_request>>

\* Mutant: the one_shot test is dropped.
AfterIteration_Sleep(single) == "sleep"

\* Mutant: the loop is left in either mode.
AfterIteration_Break(single) == "done"

\* Lines 371-374 and 381-383: break in single-pass mode, sleep otherwise.
AfterIteration(single) == IF single THEN "done" ELSE "sleep"

\* The iteration is over; its locals are dead until the next scan assigns them.
LeaveIteration ==
    /\ pc' = AfterIteration(one_shot)
    /\ failed_tasks' = <<>>
    /\ tasks_by_job' = NoGroups
    /\ idx' = 1
    /\ calls' = <<>>
    /\ log' = {}
    /\ UNCHANGED <<jobs_dir, failed_dir, feedback_file, last_analyzed_count, one_shot,
                   jobs_with_new_failures, copies, removals,
                   subprocess_result, processed_jobs,
                   processed_file, stop_request>>

\* Lines 371-374: the iteration ended without an exception.
EndIter == pc = "end" /\ LeaveIteration

\* Lines 379-383: the handler of an exception raised in the iteration.
Except == pc = "except" /\ LeaveIteration

\* Lines 374, 383: asyncio.sleep(POLL_INTERVAL) returns (the task was not
\* cancelled).
Sleep ==
    /\ pc = "sleep"
    /\ stop_request # "pending"
    /\ pc' = "scan"
    /\ UNCHANGED <<jobs_dir, failed_dir, feedback_file, last_analyzed_count, one_shot,
                   failed_tasks, jobs_with_new_failures, tasks_by_job, idx, calls,
                   copies, removals,
                   subprocess_result, processed_jobs,
                   processed_file, stop_request, log>>

Iteration ==
    \/ Scan \/ ScanError \/ Archive \/ Group \/ Check \/ LoopExit
    \/ Reflect \/ Mutate \/ Publish \/ EndIter \/ Except \/ Sleep

\* The monitor beside a runner that adds failed tasks to both jobs.
Next ==
    \/ \E j \in Jobs : RunnerFail(j)
    \/ Iteration

Spec == Init /\ [][Next]_vars

\* The monitor beside a runner that adds and deletes tasks of one job.
NextChurn ==
    \/ RunnerFail("run1")
    \/ RunnerRemove("run1")
    \/ Iteration

SpecChurn == Init /\ [][NextChurn]_vars

\* The same, with the process scheduled: every step of the loop that can be
\* taken is taken (each subprocess.run() has a timeout, the sleep is finite).
SpecChurnLive == Init /\ [][NextChurn]_vars /\ WF_vars(Iteration)

\* --- the end-to-end scenario: ten failed tasks of run1, nothing archived
\* reward.txt holds "0" with or without a newline; test-stdout.txt may be there.
E2ETree(text, test) ==
    [j \in Jobs |-> [t \in Tasks |->
        IF j = "run1" /\ t <= Threshold THEN TaskDir(TRUE, text, TRUE, test)
        ELSE NoEntry]]

InitE2E ==
    /\ \E text \in {<<"0">>, <<"0", "\n">>}, test \in BOOLEAN :
          jobs_dir = E2ETree(text, test)
    /\ failed_dir = EmptyArchive
    /\ feedback_file = [j \in Jobs |-> "absent"]
    /\ last_analyzed_count = [j \in Jobs |-> 0]
    /\ one_shot \in BOOLEAN
    /\ pc = "scan"
    /\ failed_tasks = <<>>
    /\ jobs_with_new_failures = NoNew
    /\ tasks_by_job = NoGroups
    /\ idx = 1
    /\ calls = <<>>
    /\ copies = NoCopies
    /\ removals = 0
    /\ subprocess_result = "none"
    /\ processed_file = NoProcessedFile
    /\ processed_jobs = load_processed_jobs(processed_file)
    /\ stop_request = "none"
    /\ log = {}

NextE2E ==
    \/ Scan \/ Archive \/ Group \/ Check \/ LoopExit
    \/ Reflect \/ Mutate \/ Publish \/ EndIter \/ Sleep

SpecE2E == InitE2E /\ [][NextE2E]_vars

\* --- small trees with arbitrary content
SlotOf(k) == << IF k % 2 = 1 THEN "run1" ELSE "run2", (k + 1) \div 2 >>
Slots == { SlotOf(k) : k \in 1..MaxSlots }

\* Contents of reward.txt: empty, "0", "0\n", "-0", "1", "-1", "10", "a".
RewardTexts ==
    { <<>>, <<"0">>, <<"0", "\n">>, <<"-", "0">>, <<"1">>, <<"-", "1">>,
      <<"1", "0">>, <<"a">> }

Entries ==
    {NoEntry, FileEntry}
    \cup { TaskDir(FALSE, <<>>, traj, test) : traj \in BOOLEAN, test \in BOOLEAN }
    \cup { TaskDir(TRUE, text, tr[1], tr[2]) :
              text \in RewardTexts, tr \in BOOLEAN \X BOOLEAN }

TreeOf(f) ==
    [j \in Jobs |-> [t \in Tasks |-> IF <<j, t>> \in Slots THEN f[<<j, t>>] ELSE NoEntry]]

InitScan ==
    /\ \E f \in [Slots -> Entries] : jobs_dir = TreeOf(f)
    /\ failed_dir = EmptyArchive
    /\ feedback_file = [j \in Jobs |-> "absent"]
    /\ last_analyzed_count = [j \in Jobs |-> 0]
    /\ one_shot = TRUE
    /\ pc = "scan"
    /\ failed_tasks = <<>>
    /\ jobs_with_new_failures = NoNew
    /\ tasks_by_job = NoGroups
    /\ idx = 1
    /\ calls = <<>>
    /\ copies = NoCopies
    /\ removals = 0
    /\ subprocess_result = "none"
    /\ processed_file = NoProcessedFile
    /\ processed_jobs = load_processed_jobs(processed_file)
    /\ stop_request = "none"
    /\ log = {}

\* One call of find_failed_tasks() on each tree.
NextScan == Scan

SpecScan == InitScan /\ [][NextScan]_vars

\* --- the archiver called twice with the records of one scan
ArchiveEntries ==
    { [traj |-> tr[1], test |-> tr[2], cut |-> FALSE] : tr \in BOOLEAN \X BOOLEAN }
SourceEntries == { NoEntry } \cup { TaskDir(TRUE, <<"0">>, TRUE, test) : test \in BOOLEAN }

ArchiveOf(f) ==
    [j \in Jobs |-> [t \in Tasks |-> IF <<j, t>> \in Slots THEN f[<<j, t>>] ELSE NoArchive]]

InitArchive ==
    /\ \E f \in [Slots -> SourceEntries] : jobs_dir = TreeOf(f)
    /\ \E f \in [Slots -> ArchiveEntries] : failed_dir = ArchiveOf(f)
    /\ feedback_file = [j \in Jobs |-> "absent"]
    /\ last_analyzed_count = [j \in Jobs |-> 0]
    /\ one_shot = TRUE
    /\ pc = "scan"
    /\ failed_tasks = <<>>
    /\ jobs_with_new_failures = NoNew
    /\ tasks_by_job = NoGroups
    /\ idx = 1
    /\ calls = <<>>
    /\ copies = NoCopies
    /\ removals = 0
    /\ subprocess_result = "none"
    /\ processed_file = NoProcessedFile
    /\ processed_jobs = load_processed_jobs(processed_file)
    /\ stop_request = "none"
    /\ log = {}

\* The runner deletes a task directory after the scan (before either call).
RunnerDelete(j, t) ==
    /\ pc \in {"archive", "group"}
    /\ jobs_dir[j][t].dir # "none"
    /\ jobs_dir' = [jobs_dir EXCEPT ![j][t] = NoEntry]
    /\ UNCHANGED <<failed_dir, feedback_file, last_analyzed_count, one_shot, pc,
                   failed_tasks, jobs_with_new_failures, tasks_by_job, idx, calls,
                   copies, removals,
                   subprocess_result, processed_jobs,
                   processed_file, stop_request, log>>

\* copy_failed_artifacts() is called again with the records of the first call.
ArchiveAgain ==
    /\ pc = "group"
    /\ LET r == copy_failed_artifacts(jobs_dir, failed_tasks, failed_dir, copies)
       IN /\ failed_dir' = r.archive
          /\ copies' = r.copies
          /\ jobs_with_new_failures' = IF r.raised THEN NoNew ELSE r.new
          /\ pc' = IF r.raised THEN "except" ELSE "again"
    /\ UNCHANGED <<jobs_dir, feedback_file, last_analyzed_count, one_shot,
                   failed_tasks, tasks_by_job, idx, calls, removals,
                   subprocess_result, processed_jobs,
                   processed_file, stop_request, log>>

NextArchive ==
    \/ Scan
    \/ \E j \in Jobs, t \in Tasks : RunnerDelete(j, t)
    \/ Archive
    \/ ArchiveAgain

SpecArchive == InitArchive /\ [][NextArchive]_vars

\* ====================================================================
\* Properties
\* ====================================================================
StagePcs == {"reflect", "mutate", "publish"}

\* The calls of one stage for one job recorded in the iteration so far.
CallsOf(stage, j) ==
    {i \in 1..Len(calls) : calls[i].stage = stage /\ calls[i].job_id = j}

\* The count of failed tasks of job j in the scan of this iteration.
ScanCount(j) == CountOf(failed_tasks, j)

\* C1: in every iteration, for every job of the scan, the reflection is
\* started if and only if floor(count/10) > floor(watermark/10), count being
\* the job's failed tasks of this scan and watermark the stored value (0 when
\* there is none): it is started only on a crossing, and an iteration does
\* not end with a job of the scan on a crossing for which it was not started.
C1_EveryIteration ==
    /\ pc = "reflect" =>
          (CurCount \div 10) > (last_analyzed_count[CurJob] \div 10)
    /\ pc \in {"end", "except"} =>
          \A j \in Jobs :
              (ScanCount(j) \div 10) > (last_analyzed_count[j] \div 10)
                  => CallsOf("reflect", j) # {}

\* The rule of line 338 where the for loop evaluates it: the reflection is
\* started for the job at the head of the loop exactly on a crossing.
C1_CrossingRule ==
    [][InLoop =>
        ((pc' = "reflect") <=>
            (CurCount \div 10) > (last_analyzed_count[CurJob] \div 10))]_vars

\* The reflection is running for a job with watermark 19 and count 20.
C1_Witness ==
    /\ pc = "reflect"
    /\ CurCount = 20
    /\ last_analyzed_count[CurJob] = 19

\* C2: when copy_failed_artifacts() has returned and is called again with the
\* same records, the second call returns an empty mapping, and over both
\* calls no trajectory and no test result is copied more than once.
C2_ArchiverIdempotent ==
    /\ \A j \in Jobs, t \in Tasks :
          copies[j][t].traj <= 1 /\ copies[j][t].test <= 1
    /\ pc = "group" =>
          \A i \in 1..Len(failed_tasks) :
              LET e == failed_dir[failed_tasks[i].job_id][failed_tasks[i].task_id]
              IN e.traj /\ (failed_tasks[i].has_test => e.test)
    /\ pc = "again" => jobs_with_new_failures = NoNew

\* The second call has returned after a first call that copied a trajectory
\* and a test result.
C2_Witness ==
    /\ pc = "again"
    /\ \E j \in Jobs, t \in Tasks : copies[j][t].traj = 1 /\ copies[j][t].test = 1

\* C3: in one iteration, once a stage of job A has failed (no feedback, a
\* False result, or an exception), no further stage is called for A, and the
\* for loop goes on to the next job of tasks_by_job.
C3_StageIsolation ==
    /\ [](\A i \in 1..Len(calls) : \A k \in 1..Len(calls) :
            (i < k /\ calls[i].result # "ok") => calls[k].job_id # calls[i].job_id)
    /\ [](pc \in StagePcs =>
            \A i \in 1..Len(calls) :
                calls[i].job_id = CurJob => calls[i].result = "ok")
    /\ [][(pc \in StagePcs /\ pc' \notin StagePcs) =>
            (pc' = "check" /\ idx' = idx + 1 /\ tasks_by_job' = tasks_by_job)]_vars

\* The reflection of the second job is running after the signature iteration
\* of the first job failed.
C3_Witness ==
    /\ pc = "reflect"
    /\ idx = 2
    /\ Len(calls) = 2
    /\ calls[2] = Call("mutate", tasks_by_job.keys[1], "fail")

\* C4: run_signature_iteration() is called for a job only after the
\* reflection of that job succeeded in the same iteration, push_nanocode_to_hub()
\* only after the signature iteration of that job succeeded in the same
\* iteration, and each stage is called at most once per job and iteration.
C4_StageOrder ==
    /\ \A j \in Jobs :
          /\ Cardinality(CallsOf("reflect", j)) <= 1
          /\ Cardinality(CallsOf("mutate", j)) <= 1
          /\ Cardinality(CallsOf("publish", j)) <= 1
    /\ \A k \in 1..Len(calls) :
          /\ calls[k].stage = "mutate" =>
                \E i \in 1..(k - 1) : calls[i] = Call("reflect", calls[k].job_id, "ok")
          /\ calls[k].stage = "publish" =>
                \E i \in 1..(k - 1) : calls[i] = Call("mutate", calls[k].job_id, "ok")
    /\ pc = "reflect" => CallsOf("reflect", CurJob) = {}
    /\ pc = "mutate" =>
          /\ CallsOf("mutate", CurJob) = {}
          /\ \E i \in 1..Len(calls) : calls[i] = Call("reflect", CurJob, "ok")
    /\ pc = "publish" =>
          /\ CallsOf("publish", CurJob) = {}
          /\ \E i \in 1..Len(calls) : calls[i] = Call("mutate", CurJob, "ok")

\* The push is running for the second job after all three stages of the first.
C4_Witness ==
    /\ pc = "publish"
    /\ idx = 2
    /\ Len(calls) = 5
    /\ calls[3].stage = "publish"

\* C5: from an empty archive and no watermark, the single iteration of a
\* single-pass run over ten failed tasks of run1 archives the ten tasks,
\* finds the crossing, calls the reflection exactly once for run1 and, when
\* it returned feedback, the signature iteration exactly once.
C5_EndToEnd ==
    one_shot =>
        /\ pc # "except"
        /\ pc = "group" =>
              /\ jobs_with_new_failures["run1"] = Ascending(10)
              /\ \A t \in 1..10 : failed_dir["run1"][t].traj
        /\ pc = "end" =>
              /\ Cardinality(CallsOf("reflect", "run1")) = 1
              /\ calls[1].stage = "reflect"
              /\ calls[1].result = "ok" => Cardinality(CallsOf("mutate", "run1")) = 1
              /\ calls[1].result # "ok" => CallsOf("mutate", "run1") = {}

\* The single iteration is over, the reflection returned feedback and the
\* signature iteration was called.
C5_Witness ==
    /\ one_shot
    /\ pc = "end"
    /\ Len(calls) >= 2
    /\ calls[1] = Call("reflect", "run1", "ok")
    /\ calls[2].stage = "mutate"
    /\ \A t \in 1..10 : failed_dir["run1"][t].traj

\* C6: once the reflection over the ten tasks has returned feedback (the
\* watermark is 10), a further iteration over the same ten tasks archives
\* nothing new and does not start the reflection again.
C6_SecondPass ==
    /\ (pc = "group" /\ last_analyzed_count["run1"] = 10) =>
          jobs_with_new_failures = NoNew
    /\ pc = "reflect" => last_analyzed_count["run1"] = 0
    /\ (InLoop /\ last_analyzed_count["run1"] = 10) => CurCount = 10

\* The second pass is at the threshold check with count 10 and watermark 10.
C6_Witness ==
    /\ InLoop
    /\ CurJob = "run1"
    /\ CurCount = 10
    /\ last_analyzed_count["run1"] = 10
    /\ calls = <<>>

\* Contents of reward.txt that int(text.strip()) turns into 0.
ZeroTexts == { <<"0">>, <<"0", "\n">>, <<"-", "0">> }

\* A task directory with a reward marker that reads as 0 and a trajectory.
IsFailedDir(e) ==
    e.dir = "dir" /\ e.has_reward /\ e.reward_text \in ZeroTexts /\ e.traj

Reported == { <<failed_tasks[i].job_id, failed_tasks[i].task_id>> : i \in 1..Len(failed_tasks) }

\* C7: find_failed_tasks() always returns, and it reports a task (once) if and
\* only if the task's reward marker exists, reads as the integer 0 and the
\* trajectory file exists; every other task is skipped, whatever else the
\* tree holds.
C7_ScanCorrect ==
    /\ pc # "except"
    /\ pc # "scan" =>
          /\ \A j \in Jobs, t \in Tasks :
                (<<j, t>> \in Reported) <=> IsFailedDir(jobs_dir[j][t])
          /\ Cardinality(Reported) = Len(failed_tasks)
          /\ \A i \in 1..Len(failed_tasks) :
                /\ failed_tasks[i].reward = 0
                /\ failed_tasks[i].has_test =
                      jobs_dir[failed_tasks[i].job_id][failed_tasks[i].task_id].test

\* A failed task is reported although the other task of the tree was skipped
\* for a marker that is no integer.
C7_Witness ==
    /\ pc = "archive"
    /\ Len(failed_tasks) = 1
    /\ \E j \in Jobs, t \in Tasks :
          /\ jobs_dir[j][t].dir = "dir"
          /\ jobs_dir[j][t].has_reward
          /\ jobs_dir[j][t].reward_text = <<"a">>
          /\ jobs_dir[j][t].traj

\* C8: with one_shot = TRUE the loop never sleeps, never scans a second time,
\* and ends, whether the iteration completed, found no failed task or raised.
C8_SinglePass ==
    /\ [](one_shot => pc # "sleep")
    /\ [][(one_shot /\ pc # "scan") => pc' # "scan"]_vars
    /\ [][(one_shot /\ pc \in {"end", "except"}) => pc' = "done"]_vars
    /\ (one_shot => <>(pc = "done"))

\* A single-pass run has ended after archiving something.
C8_Witness ==
    /\ one_shot
    /\ pc = "done"
    /\ \E j \in Jobs, t \in Tasks : failed_dir[j][t].traj

\* C9: no step lowers last_analyzed_count[job], also when the job's count of
\* failed tasks went down between two scans.
C9_WatermarkMonotone ==
    [][\A j \in Jobs : last_analyzed_count'[j] >= last_analyzed_count[j]]_vars

\* The threshold check sees a count below the job's watermark.
C9_Witness ==
    /\ InLoop
    /\ last_analyzed_count[CurJob] >= 10
    /\ CurCount < last_analyzed_count[CurJob]

\* C10: last_analyzed_count[job] changes only in the step in which the
\* reflection of that job returned feedback, to the count of this iteration;
\* the signature iteration and the push leave it as it is, also when they fail.
C10_WatermarkUpdate ==
    [][/\ \A j \in Jobs :
            last_analyzed_count'[j] # last_analyzed_count[j] =>
                /\ pc = "reflect" /\ j = CurJob
                /\ pc' = "mutate"
                /\ calls'[Len(calls')] = Call("reflect", j, "ok")
                /\ last_analyzed_count'[j] = CurCount
       /\ (pc = "reflect" /\ pc' = "mutate") =>
              last_analyzed_count'[CurJob] = CurCount
       /\ pc \in {"mutate", "publish"} =>
              last_analyzed_count' = last_analyzed_count]_vars

\* The signature iteration has failed and the watermark holds the new count.
C10_Witness ==
    /\ pc = "check"
    /\ Len(calls) = 2
    /\ calls[2].stage = "mutate"
    /\ calls[2].result = "fail"
    /\ last_analyzed_count[calls[2].job_id] = tasks_by_job.count[calls[2].job_id]
    /\ tasks_by_job.count[calls[2].job_id] = 11

\* C11: a pipeline attempt that failed (at the reflection, the signature
\* iteration or the push) has consumed the crossing: with the count of this
\* scan the crossing rule no longer holds for the job, so that an iteration
\* over an unchanged count does not call the reflection for it again; in
\* particular the reflection is not called over the same ten tasks while the
\* empty or unreadable FEEDBACK.md of an earlier attempt lies in the archive.
C11_FailedAttemptConsumes ==
    /\ \A i \in 1..Len(calls) :
          calls[i].result # "ok" =>
              (tasks_by_job.count[calls[i].job_id] \div 10)
                  <= (last_analyzed_count[calls[i].job_id] \div 10)
    /\ pc = "reflect" => feedback_file[CurJob] \notin {"empty", "garbled"}

\* The task ids of job j in the mapping returned by the last call.
NewOf(j) == { jobs_with_new_failures[j][i] : i \in 1..Len(jobs_with_new_failures[j]) }

\* C12: when the call of copy_failed_artifacts() is over, every record of the
\* call whose trajectory can be copied (the source is there) is archived, and
\* every trajectory copied in the call is reported in the returned mapping,
\* also when the copy of another record of the call failed.
C12_PerRecordIsolation ==
    pc \in {"group", "except"} =>
        \A i \in 1..Len(failed_tasks) :
            LET j == failed_tasks[i].job_id
                t == failed_tasks[i].task_id
            IN /\ SourceTraj(jobs_dir, failed_tasks[i]) => failed_dir[j][t].traj
               /\ copies[j][t].traj > 0 => t \in NewOf(j)

\* ====================================================================
\* Errors of the iteration outside the archiver and the stages
\* ====================================================================
\* Lines 324-327: the returned mapping is dropped and print_status() raises
\* (an OSError of print()); caught at line 379.
StatusError ==
    /\ pc = "group"
    /\ jobs_with_new_failures' = NoNew
    /\ pc' = "except"
    /\ UNCHANGED <<jobs_dir, failed_dir, feedback_file, last_analyzed_count, one_shot,
                   failed_tasks, tasks_by_job, idx, calls, copies, removals,
                   subprocess_result, processed_jobs, processed_file, stop_request, log>>

\* Lines 335-341, 366-367: the head of the for loop raises (the print() of
\* line 339 or 367 is outside the inner try); caught at line 379.
CheckError ==
    /\ InLoop
    /\ pc' = "except"
    /\ subprocess_result' = "none"
    /\ UNCHANGED <<jobs_dir, failed_dir, feedback_file, last_analyzed_count, one_shot,
                   failed_tasks, jobs_with_new_failures, tasks_by_job, idx, calls,
                   copies, removals, processed_jobs, processed_file, stop_request, log>>

\* A step of the process with an error at any point of the iteration.
FaultyIteration == Iteration \/ StatusError \/ CheckError

NextFaults ==
    \/ RunnerFail("run1")
    \/ RunnerRemove("run1")
    \/ FaultyIteration

SpecFaults == Init /\ [][NextFaults]_vars

\* The same, with the process scheduled.
SpecFaultsLive == Init /\ [][NextFaults]_vars /\ WF_vars(FaultyIteration)

\* C13: in continuous mode the loop is never left; an error of the scan, the
\* archiver, the status report or the threshold check is handled at the loop
\* boundary, an error of a stage inside the for loop; after either the loop
\* sleeps and then scans again.  In single-pass mode the handler ends the run.
C13_ErrorContainment ==
    /\ [](~one_shot => pc # "done")
    /\ [][pc = "except" => pc' = (IF one_shot THEN "done" ELSE "sleep")]_vars
    /\ [][pc = "sleep" => pc' = "scan"]_vars
    /\ [][(pc = "reflect" /\ calls'[Len(calls')].result = "raised")
             => pc' = "check"]_vars
    /\ [](pc \in {"except"} \cup StagePcs =>
            <>(pc = (IF one_shot THEN "done" ELSE "scan")))

\* In continuous mode the handler of line 379 runs for an error raised at the
\* threshold check of a job with eleven failed tasks.
C13_Witness ==
    /\ ~one_shot
    /\ pc = "except"
    /\ tasks_by_job.keys = <<"run1">>
    /\ tasks_by_job.count["run1"] = 11

\* C14: when the agent process of the reflection has returned (with any exit
\* code), the reflection counts as successful -- the watermark is set to the
\* count and the signature iteration is called next -- if and only if
\* FEEDBACK.md exists then, whatever it holds.
C14_SuccessIffFileExists ==
    [][(pc = "reflect" /\ subprocess_result' \in {"exit0", "exit1"}) =>
          ((feedback_file'[CurJob] # "absent") <=>
              (pc' = "mutate" /\ last_analyzed_count'[CurJob] = CurCount))]_vars

\* C15: when the agent process of the reflection timed out or could not be
\* started, run_reflection_analysis() returns no feedback and does not raise,
\* whatever the archive holds: the call is recorded as failed, the watermark
\* stays and the for loop goes to the next job.
C15_TimeoutReturnsAbsent ==
    [][(pc = "reflect" /\ subprocess_result' \in {"timeout", "error"}) =>
          /\ calls'[Len(calls')] = Call("reflect", CurJob, "fail")
          /\ last_analyzed_count' = last_analyzed_count
          /\ pc' = "check"]_vars

\* C16: run_signature_iteration() returns True if and only if the agent
\* process was run and exited with code 0; after a timeout, an error starting
\* the process, another exit code or without nanocode/nanocode.py it returns
\* False, nothing is raised, and push_nanocode_to_hub() is not called.
C16_MutationSuccess ==
    [][pc = "mutate" =>
          /\ calls'[Len(calls')].stage = "mutate"
          /\ calls'[Len(calls')].job_id = CurJob
          /\ calls'[Len(calls')].result \in {"ok", "fail"}
          /\ (calls'[Len(calls')].result = "ok") <=> (subprocess_result' = "exit0")
          /\ pc' = (IF subprocess_result' = "exit0" THEN "publish" ELSE "check")
          /\ subprocess_result' # "exit0" => idx' = idx + 1]_vars

\* The for loop has gone on after a signature iteration that timed out.
C16_Witness ==
    /\ pc = "check"
    /\ subprocess_result = "timeout"
    /\ Len(calls) = 2
    /\ calls[2].stage = "mutate"
    /\ calls[2].result = "fail"

\* What C17 says of one record of the call that is over: it is in the
\* returned mapping exactly if its trajectory was copied in the call, and its
\* test result (when the scan found one and it can be read) is archived
\* whether or not the trajectory was copied in this call.
ReportedIffCopied(task) ==
    LET j == task.job_id
        t == task.task_id
    IN /\ (t \in NewOf(j)) <=> (copies[j][t].traj > 0)
       /\ (task.has_test /\ SourceTest(jobs_dir, task)) => failed_dir[j][t].test

\* C17: when a call of copy_failed_artifacts() is over, a task is reported as
\* newly archived for its job if and only if its trajectory was copied in
\* that call, and the test result is copied under its own exists() check: one
\* that is there only after the trajectory was archived is copied without the
\* task being reported.
C17_NewlyArchivedIffCopied ==
    pc \in {"group", "except"} =>
        \A i \in 1..Len(failed_tasks) : ReportedIffCopied(failed_tasks[i])

\* The same for the calls that return: it holds of them.
C17_ReturnedCalls ==
    pc = "group" =>
        \A i \in 1..Len(failed_tasks) : ReportedIffCopied(failed_tasks[i])

\* ====================================================================
\* The archiver beside a runner that is still writing, and copies that stop
\* part-way
\* ====================================================================
\* The runner creates a task directory of job j with reward 0 while
\* agent/command-0/stdout.txt is still being written.
RunnerWrite(j) ==
    /\ pc = "scan"
    /\ DirCount(jobs_dir) < MaxSlots
    /\ jobs_dir' = [jobs_dir EXCEPT ![j][FirstFree(jobs_dir, j)] =
                       [FailedDir EXCEPT !.growing = TRUE]]
    /\ UNCHANGED <<failed_dir, feedback_file, last_analyzed_count, one_shot, pc,
                   failed_tasks, jobs_with_new_failures, tasks_by_job, idx, calls,
                   copies, removals, subprocess_result, processed_jobs,
                   processed_file, stop_request, log>>

\* The runner has written the whole of stdout.txt of a task.
RunnerFinish(j, t) ==
    /\ pc = "scan"
    /\ jobs_dir[j][t].growing
    /\ jobs_dir' = [jobs_dir EXCEPT ![j][t].growing = FALSE]
    /\ UNCHANGED <<failed_dir, feedback_file, last_analyzed_count, one_shot, pc,
                   failed_tasks, jobs_with_new_failures, tasks_by_job, idx, calls,
                   copies, removals, subprocess_result, processed_jobs,
                   processed_file, stop_request, log>>

\* Lines 113-120: copy_failed_artifacts(failed_tasks) in which the
\* shutil.copy() of the trajectory of record k raises after it has created
\* trajectory.txt and written a part of it (the disk is full, the source
\* cannot be read further); the exception is caught at line 379.
ArchiveInterrupted ==
    /\ pc = "archive"
    /\ \E k \in 1..Len(failed_tasks) :
          LET before == copy_failed_artifacts(jobs_dir, SubSeq(failed_tasks, 1, k - 1),
                                              failed_dir, copies)
              j == failed_tasks[k].job_id
              t == failed_tasks[k].task_id
          IN /\ ~before.raised
             /\ ~before.archive[j][t].traj
             /\ SourceTraj(jobs_dir, failed_tasks[k])
             /\ failed_dir' = [before.archive EXCEPT ![j][t].traj = TRUE,
                                                      ![j][t].cut = TRUE]
             /\ copies' = [before.copies EXCEPT ![j][t].traj = @ + 1]
    /\ jobs_with_new_failures' = NoNew
    /\ pc' = "except"
    /\ UNCHANGED <<jobs_dir, feedback_file, last_analyzed_count, one_shot,
                   failed_tasks, tasks_by_job, idx, calls, removals,
                   subprocess_result, processed_jobs, processed_file, stop_request, log>>

\* The passes of the loop over at most MaxSlots tasks of run1 (no crossing).
NextPartial ==
    \/ RunnerWrite("run1")
    \/ \E t \in Tasks : RunnerFinish("run1", t)
    \/ Scan \/ Archive \/ ArchiveInterrupted \/ Group \/ Check \/ LoopExit
    \/ EndIter \/ Except \/ Sleep

SpecPartial == Init /\ [][NextPartial]_vars

\* C18: archive writes are safe to re-attempt: when the archiver call of a
\* pass has returned, every record of the pass whose trajectory is completely
\* written in jobs/ has its complete trajectory in the archive, also when an
\* earlier pass copied it while it was being written or its copy stopped
\* part-way.
C18_ReattemptCompletes ==
    pc = "group" =>
        \A i \in 1..Len(failed_tasks) :
            LET j == failed_tasks[i].job_id
                t == failed_tasks[i].task_id
            IN (SourceTraj(jobs_dir, failed_tasks[i]) /\ ~jobs_dir[j][t].growing)
                  => (failed_dir[j][t].traj /\ ~failed_dir[j][t].cut)

\* ====================================================================
\* The process is stopped and started again
\* ====================================================================
\* Mutant: the watermarks outlive the process (as if they were stored).
Restart_KeepWatermarks ==
    /\ one_shot' \in BOOLEAN
    /\ \E reset_processed \in BOOLEAN :
          processed_file' = IF reset_processed THEN NoProcessedFile
                            ELSE processed_file
    /\ processed_jobs' = load_processed_jobs(processed_file')
    /\ pc' = "scan"
    /\ failed_tasks' = <<>>
    /\ jobs_with_new_failures' = NoNew
    /\ tasks_by_job' = NoGroups
    /\ idx' = 1
    /\ calls' = <<>>
    /\ subprocess_result' = "none"
    /\ stop_request' = "none"
    /\ UNCHANGED <<jobs_dir, failed_dir, feedback_file, copies, removals,
                   last_analyzed_count, log>>

\* The process ends at any point (or has ended) and main() runs again, lines
\* 415-417 and 305-317: --reset-processed deletes the state file, the state
\* file is loaded, last_analyzed_count is the empty dict; the other files on
\* disk stay.
Restart ==
    /\ one_shot' \in BOOLEAN
    /\ \E reset_processed \in BOOLEAN :
          processed_file' = IF reset_processed THEN NoProcessedFile
                            ELSE processed_file
    /\ processed_jobs' = load_processed_jobs(processed_file')
    /\ last_analyzed_count' = [j \in Jobs |-> 0]
    /\ pc' = "scan"
    /\ failed_tasks' = <<>>
    /\ jobs_with_new_failures' = NoNew
    /\ tasks_by_job' = NoGroups
    /\ idx' = 1
    /\ calls' = <<>>
    /\ subprocess_result' = "none"
    /\ stop_request' = "none"
    /\ UNCHANGED <<jobs_dir, failed_dir, feedback_file, copies, removals, log>>

\* The loop over the ten failed tasks of run1, with restarts.
NextRestart == NextE2E \/ Restart

SpecRestart == InitE2E /\ [][NextRestart]_vars

\* C19: a restart leaves the archive and FEEDBACK.md as they are and every
\* watermark at 0; the watermark of a job is still 0 when the new process
\* first reaches its threshold check, so with a count of at least 10 the
\* reflection is started again, whatever is archived.
C19_RestartForgets ==
    /\ [][Restart =>
            /\ \A j \in Jobs : last_analyzed_count'[j] = 0
            /\ failed_dir' = failed_dir
            /\ feedback_file' = feedback_file]_vars
    /\ [][\A j \in Jobs :
            last_analyzed_count'[j] # last_analyzed_count[j] =>
                (last_analyzed_count'[j] = 0 \/ (pc = "reflect" /\ pc' = "mutate"))]_vars
    /\ [][(InLoop /\ CurCount >= 10 /\ last_analyzed_count[CurJob] = 0)
             => pc' \in {"reflect", "scan"}]_vars
    /\ [](pc = "reflect" => last_analyzed_count["run1"] = 0)

\* The reflection is started for run1 with count 10 although its ten tasks
\* were archived and FEEDBACK.md was written by an earlier process.
C19_Witness ==
    /\ pc = "reflect"
    /\ CurJob = "run1"
    /\ CurCount = 10
    /\ last_analyzed_count["run1"] = 0
    /\ feedback_file["run1"] = "text"
    /\ \A t \in 1..10 : failed_dir["run1"][t].traj /\ copies["run1"][t].traj = 1

\* ====================================================================
\* The processed-job set
\* ====================================================================
\* What .processed_failed_jobs.json may hold when the process starts.
ProcessedFiles == {NoProcessedFile} \cup { ProcessedFile(S) : S \in SUBSET Jobs }

\* The loop over the ten failed tasks of run1, started with any state file.
InitProcessed ==
    /\ \E text \in {<<"0">>, <<"0", "\n">>}, test \in BOOLEAN :
          jobs_dir = E2ETree(text, test)
    /\ failed_dir = EmptyArchive
    /\ feedback_file = [j \in Jobs |-> "absent"]
    /\ last_analyzed_count = [j \in Jobs |-> 0]
    /\ one_shot \in BOOLEAN
    /\ pc = "scan"
    /\ failed_tasks = <<>>
    /\ jobs_with_new_failures = NoNew
    /\ tasks_by_job = NoGroups
    /\ idx = 1
    /\ calls = <<>>
    /\ copies = NoCopies
    /\ removals = 0
    /\ subprocess_result = "none"
    /\ processed_file \in ProcessedFiles
    /\ processed_jobs = load_processed_jobs(processed_file)
    /\ stop_request = "none"
    /\ log = {}

SpecProcessed == InitProcessed /\ [][NextE2E]_vars

\* C20: no step of the loop changes processed_jobs or the state file, the set
\* stays what load_processed_jobs() returned at startup, and the threshold
\* check starts the reflection for a job exactly on a crossing, whether the
\* job is in the set or not.
C20_ProcessedSetUnused ==
    /\ [][processed_jobs' = processed_jobs /\ processed_file' = processed_file]_vars
    /\ [](processed_jobs = load_processed_jobs(processed_file))
    /\ [][\A member \in BOOLEAN :
            (InLoop /\ (CurJob \in processed_jobs) = member) =>
                ((pc' = "reflect") <=>
                    (CurCount \div 10) > (last_analyzed_count[CurJob] \div 10))]_vars

\* The reflection is started for run1 although the state file lists run1.
C20_Witness ==
    /\ pc = "reflect"
    /\ CurJob = "run1"
    /\ "run1" \in processed_jobs
    /\ processed_file = ProcessedFile({"run1"})

\* ====================================================================
\* The stop request
\* ====================================================================
\* SIGINT arrives.  While the coroutine is suspended in asyncio.sleep() (lines
\* 374, 383) the task is cancelled and CancelledError, which no except clause
\* of the loop names, leaves the loop.  While the coroutine is running
\* synchronous code, asyncio.run() (line 419) either lets KeyboardInterrupt
\* be raised at the current statement, which line 376 catches (Python 3.10),
\* or only cancels the task, which takes effect at its next await (its
\* SIGINT handler, Python 3.11 and later).
StopRequest ==
    /\ stop_request = "none"
    /\ pc # "done"
    /\ \/ stop_request' = "raised" /\ pc' = "done"
       \/ pc # "sleep" /\ stop_request' = "pending" /\ pc' = pc
    /\ UNCHANGED <<jobs_dir, failed_dir, feedback_file, last_analyzed_count, one_shot,
                   failed_tasks, jobs_with_new_failures, tasks_by_job, idx, calls,
                   copies, removals, subprocess_result, processed_jobs,
                   processed_file, log>>

\* Lines 374, 383: asyncio.sleep() of a cancelled task raises CancelledError.
Cancelled ==
    /\ pc = "sleep"
    /\ stop_request = "pending"
    /\ stop_request' = "raised"
    /\ pc' = "done"
    /\ UNCHANGED <<jobs_dir, failed_dir, feedback_file, last_analyzed_count, one_shot,
                   failed_tasks, jobs_with_new_failures, tasks_by_job, idx, calls,
                   copies, removals, subprocess_result, processed_jobs,
                   processed_file, log>>

\* The loop over the ten failed tasks of run1, with a stop request.
NextStop == NextE2E \/ StopRequest \/ Cancelled

SpecStop == InitE2E /\ [][NextStop]_vars

\* C21: once the stop request has arrived -- during the sleep or during any
\* step of the iteration, a stage's subprocess included -- the loop starts
\* neither another scan nor another stage: the process position moves to no
\* scan and to no stage.
C21_StopIsPrompt ==
    [][(stop_request' # "none" /\ pc' # pc) => pc' \notin {"scan"} \cup StagePcs]_vars

\* The stop request never lets another scan start.
C21_NoFurtherScan ==
    [][(stop_request' # "none" /\ pc' # pc) => pc' # "scan"]_vars

\* --- the lines of the log
\* The end-to-end tree with two more entries: task 11 of run1 and task 1 of
\* run2 are absent, failed, passed, without a reward marker, without a
\* trajectory or plain files.
ExtraEntries ==
    { NoEntry, FileEntry, FailedDir,
      TaskDir(TRUE, <<"1">>, TRUE, TRUE),
      TaskDir(FALSE, <<>>, TRUE, FALSE),
      TaskDir(TRUE, <<"0">>, FALSE, FALSE) }

InitLog ==
    /\ \E e1 \in ExtraEntries, e2 \in ExtraEntries :
          jobs_dir = [E2ETree(<<"0", "\n">>, TRUE) EXCEPT
                        !["run1"][Threshold + 1] = e1, !["run2"][1] = e2]
    /\ failed_dir = EmptyArchive
    /\ feedback_file = [j \in Jobs |-> "absent"]
    /\ last_analyzed_count = [j \in Jobs |-> 0]
    /\ one_shot \in BOOLEAN
    /\ pc = "scan"
    /\ failed_tasks = <<>>
    /\ jobs_with_new_failures = NoNew
    /\ tasks_by_job = NoGroups
    /\ idx = 1
    /\ calls = <<>>
    /\ copies = NoCopies
    /\ removals = 0
    /\ subprocess_result = "none"
    /\ processed_file = NoProcessedFile
    /\ processed_jobs = load_processed_jobs(processed_file)
    /\ stop_request = "none"
    /\ log = {}

SpecLog == InitLog /\ [][NextE2E]_vars

\* The jobs whose threshold check is over in the iteration in progress.
CheckedJobs ==
    IF pc = "end" THEN { tasks_by_job.keys[i] : i \in 1..Len(tasks_by_job.keys) }
    ELSE IF pc \in {"check"} \cup StagePcs
    THEN { tasks_by_job.keys[i] : i \in 1..(idx - 1) }
    ELSE {}

\* The task directories the scan of this iteration skipped.
SkippedTasks ==
    { <<j, t>> \in Jobs \X Tasks :
         jobs_dir[j][t].dir = "dir" /\ <<j, t>> \notin Reported }

\* The line that reports the failure of a stage call.
AbortLine(call) ==
    LogLine(IF call.stage = "reflect"
            THEN (IF call.result = "raised" THEN "error_processing" ELSE "no_feedback")
            ELSE IF call.stage = "mutate" THEN "signature_failed" ELSE "push_failed",
            call.job_id, 0)

JumpTree(n, text, test) ==
    [j \in Jobs |-> [t \in Tasks |->
        IF j = "run1" /\ t <= n THEN TaskDir(TRUE, text, TRUE, test)
        ELSE NoEntry]]

InitJump ==
    /\ \E n \in (2 * Threshold)..MaxTasks,
          text \in {<<"0">>, <<"0", "\n">>}, test \in BOOLEAN :
          jobs_dir = JumpTree(n, text, test)
    /\ failed_dir = EmptyArchive
    /\ feedback_file = [j \in Jobs |-> "absent"]
    /\ last_analyzed_count = [j \in Jobs |-> 0]
    /\ one_shot \in BOOLEAN
    /\ pc = "scan"
    /\ failed_tasks = <<>>
    /\ jobs_with_new_failures = NoNew
    /\ tasks_by_job = NoGroups
    /\ idx = 1
    /\ calls = <<>>
    /\ copies = NoCopies
    /\ removals = 0
    /\ subprocess_result = "none"
    /\ processed_file = NoProcessedFile
    /\ processed_jobs = load_processed_jobs(processed_file)
    /\ stop_request = "none"
    /\ log = {}

SpecJump == InitJump /\ [][NextE2E]_vars

\* The count of the job at hand is two or more multiples of ten above its
\* watermark.
SeveralMultiples ==
    (CurCount \div Threshold) >= (last_analyzed_count[CurJob] \div Threshold) + 2

\* C23: when the count of a job has passed several multiples of ten since the
\* watermark, the check starts the pipeline once (no reflection of the job
\* has run in the iteration), a reflection that returns feedback sets the
\* watermark to the full count, and from then on only a count of the next
\* multiple of ten above that count or more triggers again.
C23_OneRunPerCrossing ==
    [][/\ (InLoop /\ SeveralMultiples) =>
              /\ pc' = "reflect"
              /\ CallsOf("reflect", CurJob) = {}
       /\ (pc = "reflect" /\ SeveralMultiples) =>
              /\ Len(calls') = Len(calls) + 1
              /\ pc' = "mutate" =>
                    /\ last_analyzed_count'[CurJob] = CurCount
                    /\ \A c \in 0..(MaxTasks + Threshold) :
                          ShouldTrigger(c, last_analyzed_count'[CurJob]) <=>
                             c >= ((CurCount \div Threshold) + 1) * Threshold]_vars

\* The reflection of a job with twenty or more failed tasks and watermark 0
\* has returned feedback: the watermark is the full count.
C23_Witness ==
    /\ pc = "mutate"
    /\ Len(calls) = 1
    /\ tasks_by_job.count["run1"] >= 2 * Threshold
    /\ last_analyzed_count["run1"] = tasks_by_job.count["run1"]

\* C24: in no step is an archived file touched again: a trajectory.txt that
\* exists stays, with the content it was given (whole or cut), also when
\* stdout.txt of the task has been written further since; a
\* test-case-result.txt that exists stays; so the set of archived entries
\* only grows.
C24_ArchiveImmutable ==
    [][\A j \in Jobs, t \in Tasks :
          /\ failed_dir[j][t].traj =>
                /\ failed_dir'[j][t].traj
                /\ failed_dir'[j][t].cut = failed_dir[j][t].cut
          /\ failed_dir[j][t].test => failed_dir'[j][t].test]_vars

\* An archiver call has returned for a task whose trajectory was archived
\* while it was being written and is complete in jobs/ now: the archive still
\* holds the earlier copy.
C24_Witness ==
    /\ pc = "group"
    /\ \E i \in 1..Len(failed_tasks) :
          LET j == failed_tasks[i].job_id
              t == failed_tasks[i].task_id
          IN /\ failed_dir[j][t].traj
             /\ failed_dir[j][t].cut
             /\ ~jobs_dir[j][t].growing
             /\ copies[j][t].traj = 1

\* The records of the scan of this iteration whose trajectory is in the archive.
ArchivedRecords ==
    { i \in 1..Len(failed_tasks) :
         failed_dir[failed_tasks[i].job_id][failed_tasks[i].task_id].traj }

\* C25: a stage is entered only after copy_failed_artifacts() has returned
\* for the scan of the iteration, so every record of the scan (those counted
\* for the job at hand among them) has its trajectory in the archive; an
\* iteration whose archiver call raised has run no stage and runs none: it goes
\* from the handler to the sleep or to the end of the loop.
C25_ArchiveBeforeStages ==
    [][/\ pc' \in StagePcs =>
              /\ pc \in {"check"} \cup StagePcs
              /\ ArchivedRecords' = 1..Len(failed_tasks')
       /\ (pc = "archive" /\ pc' \notin {"archive", "group"}) =>
              /\ pc' = "except"
              /\ calls' = <<>>
       /\ pc = "except" =>
              /\ calls = <<>>
              /\ pc' \in {"except", "sleep", "done"}]_vars

\* The reflection of a job is about to run in an iteration that found ten or
\* more failed tasks after the runner had deleted one: all are archived.
C25_Witness ==
    /\ pc = "reflect"
    /\ removals > 0
    /\ Len(failed_tasks) >= Threshold
    /\ ArchivedRecords = 1..Len(failed_tasks)

\* C26: a step of the pipeline of one job leaves the watermark of every other
\* job as it is; an iteration whose scan finds no failed task goes from the
\* scan to the end of the iteration: no step of it is an archiver call or a
\* stage, the archive and the watermarks are as before.
C26_JobsAreIndependent ==
    [][/\ pc \in StagePcs =>
              \A j \in Jobs \ {CurJob} :
                  last_analyzed_count'[j] = last_analyzed_count[j]
       /\ (pc = "scan" /\ pc' \notin {"scan", "except"} /\ failed_tasks' = <<>>) =>
              /\ pc' = "end"
              /\ calls' = <<>>
              /\ failed_dir' = failed_dir /\ copies' = copies
              /\ last_analyzed_count' = last_analyzed_count
       /\ (pc = "end" /\ failed_tasks = <<>>) =>
              /\ pc' \in {"end", "sleep", "done"}
              /\ calls = <<>>
              /\ failed_dir' = failed_dir /\ copies' = copies
              /\ last_analyzed_count' = last_analyzed_count]_vars

\* The reflection of run2 has set its watermark in an iteration that left the
\* watermark run1 got in an earlier iteration alone.
C26_Witness ==
    /\ pc = "mutate"
    /\ CurJob = "run2"
    /\ last_analyzed_count["run2"] = tasks_by_job.count["run2"]
    /\ last_analyzed_count["run1"] >= Threshold
    /\ CallsOf("reflect", "run1") = {}

\* --- two jobs side by side, the loop in continuous mode
\* Both jobs hold n failed tasks, none archived yet.
PairTree(n) ==
    [j \in Jobs |-> [t \in Tasks |-> IF t <= n THEN FailedDir ELSE NoEntry]]

InitPair ==
    /\ jobs_dir = PairTree(Threshold - 1)
    /\ failed_dir = EmptyArchive
    /\ feedback_file = [j \in Jobs |-> "absent"]
    /\ last_analyzed_count = [j \in Jobs |-> 0]
    /\ one_shot = FALSE
    /\ pc = "scan"
    /\ failed_tasks = <<>>
    /\ jobs_with_new_failures = NoNew
    /\ tasks_by_job = NoGroups
    /\ idx = 1
    /\ calls = <<>>
    /\ copies = NoCopies
    /\ removals = 0
    /\ subprocess_result = "none"
    /\ processed_file = NoProcessedFile
    /\ processed_jobs = load_processed_jobs(processed_file)
    /\ stop_request = "none"
    /\ log = {}

\* The runner adds a failed task to job j, at most MaxSlots beyond the
\* eighteen of the start.
RunnerAdd(j) ==
    /\ DirCount(jobs_dir) < 2 * (Threshold - 1) + MaxSlots
    /\ RunnerFail(j)

\* The steps of the loop while jobs/ can be listed.
IterationPair ==
    \/ Scan \/ Archive \/ Group \/ Check \/ LoopExit
    \/ Reflect \/ Mutate \/ Publish \/ EndIter \/ Except \/ Sleep

\* The runner adds tasks to both jobs and deletes tasks of run1.
NextPair ==
    \/ \E j \in Jobs : RunnerAdd(j)
    \/ RunnerRemove("run1")
    \/ IterationPair

SpecPair == InitPair /\ [][NextPair]_vars

\* The loop is scheduled: every subprocess.run() has a timeout and returns, the
\* sleep is finite.
SpecPairLive == InitPair /\ [][NextPair]_vars /\ WF_vars(IterationPair)

\* The failed tasks jobs/ holds for job j are at a multiple of ten, or past
\* one, that the watermark of j is below.
Crossed(j) ==
    LET count == Cardinality(Present(jobs_dir, j))
    IN count >= Threshold
       /\ (count \div Threshold) > (last_analyzed_count[j] \div Threshold)

\* C27: in continuous mode, when the count of failed tasks of run2 has reached
\* a multiple of ten above its watermark and stays there, the reflection of
\* run2 is invoked in the end, whatever the stages of run1 do (they fail, time
\* out or raise), whichever job the loop takes first, and also when an
\* archiver call raises on the way.
C27_CrossingIsServed ==
    Crossed("run2") ~> (pc = "reflect" /\ CurJob = "run2")

\* The reflection of run2 is invoked after the reflection of run1 has failed
\* in the same iteration and an archiver call has raised before.
C27_Witness ==
    /\ pc = "reflect"
    /\ CurJob = "run2"
    /\ Crossed("run2")
    /\ Len(calls) = 1
    /\ calls[1] = Call("reflect", "run1", "fail")
    /\ removals > 0

====
